---- MODULE Spec2Model ----
(***************************************************************************)
(* docker-mirror (src/main.go): a CLI that pulls an image through a list   *)
(* of mirror registries, re-tags it and pushes it to a private registry.   *)
(*                                                                         *)
(* A Go string is modelled as a sequence of tokens; the token "/" is the   *)
(* slash character, every other token stands for a slash-free piece of     *)
(* text.  The empty string is the empty sequence.                          *)
(***************************************************************************)
EXTENDS Integers, Sequences, FiniteSets, TLC

VARIABLES
    osArgs,          \* os.Args (osArgs[1] is the program name)
    homeOK,          \* whether os.UserHomeDir() succeeds
    goos,            \* runtime.GOOS
    file,            \* the configuration file on disk
    mkdirCalled,     \* os.MkdirAll(configDir) has been called
    pc,              \* position of main
    config,          \* *Config returned by LoadConfig
    image,           \* main: image
    sourceImage,     \* main: sourceImage
    part,            \* main: part
    targetImage,     \* main: targetImage
    pullErr,         \* main: pullErr != nil
    pulledRegistry,  \* main: pulledRegistry
    idx,             \* position of the range loop over config.DockerRegistries
    calls,           \* every exec.Command run by Execute, with its outcome
    out,             \* messages printed, in order
    exit,            \* exit status of the process, -1 while it runs
    reads,           \* number of times the configuration file has been read
    stSaved,         \* store scenario: record given to the last SaveConfig
    stReplaced,      \* store scenario: the last save overwrote a different saved record
    stSaveOK,        \* store scenario: the last SaveConfig returned nil
    stLoad,          \* store scenario: result of the last LoadConfig
    stPc,            \* store scenario: last operation performed
    file0,           \* the configuration file as it was when the process started
    entered,         \* config: the lines typed on standard input, in order
    exCommand,       \* Execute scenario: command passed to Execute
    exArgs,          \* Execute scenario: args passed to Execute
    exRun,           \* Execute scenario: argument list given to exec.Command
    exDone           \* Execute scenario: Execute has run

vars == <<osArgs, homeOK, goos, file, mkdirCalled, pc, config, image,
          sourceImage, part, targetImage, pullErr, pulledRegistry, idx,
          calls, out, exit, reads, stSaved, stReplaced, stSaveOK, stLoad, stPc,
          file0, entered, exCommand, exArgs, exRun, exDone>>

runVars == <<osArgs, homeOK, goos, mkdirCalled, pc, config, image,
             sourceImage, part, targetImage, pullErr, pulledRegistry, idx,
             calls, out, exit, reads, file0, entered>>

storeVars == <<stSaved, stReplaced, stSaveOK, stLoad, stPc>>

execVars == <<exCommand, exArgs, exRun, exDone>>

(***************************************************************************)
(* Bounds of the model.                                                    *)
(***************************************************************************)
MaxHosts == 3        \* longest mirror list of a run
MaxStoreHosts == 2   \* longest mirror list of a saved record

MaxArgs == 3         \* longest argument list passed to Execute on its own

(***************************************************************************)
(* Strings.                                                                *)
(***************************************************************************)
S(t) == <<t>>
EmptyStr == <<>>
Slash == "/"

\* fmt.Sprintf("%s/%s", a, b)
Sprintf2(a, b) == a \o <<Slash>> \o b

IsPrefix(p, s) == Len(p) <= Len(s) /\ SubSeq(s, 1, Len(p)) = p

HasSlash(s) == \E i \in 1..Len(s) : s[i] = Slash

FirstSlash(s) == CHOOSE i \in 1..Len(s) : s[i] = Slash /\ \A j \in 1..(i-1) : s[j] # Slash

\* strings.Split(s, "/")
RECURSIVE Split(_)
Split(s) ==
    IF ~HasSlash(s) THEN <<s>>
    ELSE <<SubSeq(s, 1, FirstSlash(s) - 1)>> \o Split(SubSeq(s, FirstSlash(s) + 1, Len(s)))

\* strings.TrimSpace on a line of input
RECURSIVE TrimLeft(_)
TrimLeft(s) == IF s # <<>> /\ Head(s) = " " THEN TrimLeft(Tail(s)) ELSE s
RECURSIVE TrimRight(_)
TrimRight(s) == IF s # <<>> /\ s[Len(s)] = " " THEN TrimRight(SubSeq(s, 1, Len(s) - 1)) ELSE s
TrimSpace(s) == TrimRight(TrimLeft(s))

RECURSIVE SeqsUpTo(_, _)
SeqsUpTo(A, n) ==
    IF n = 0 THEN {<<>>}
    ELSE SeqsUpTo(A, n - 1) \cup {Append(q, a) : q \in SeqsUpTo(A, n - 1), a \in A}

(***************************************************************************)
(* Config and its YAML form (gopkg.in/yaml.v2, called at lines 46 and 55). *)
(* A document holds one scalar per string; a scalar is written plain or    *)
(* double-quoted.                                                          *)
(***************************************************************************)
MkConfig(d, u, p, j, regs) ==
    [registry |-> [domain |-> d, username |-> u, password |-> p, project |-> j],
     dockerRegistries |-> regs]

\* var config Config / &Config{}
ZeroConfig == MkConfig(EmptyStr, EmptyStr, EmptyStr, EmptyStr, <<>>)

\* the tag yaml resolves a plain scalar to
Resolve(s) ==
    IF s \in {EmptyStr, S("null"), S("~")} THEN "null"
    ELSE IF s \in {S("true"), S("false")} THEN "bool"
    ELSE "str"

\* yaml.Marshal of a string: quoted when the plain form would not resolve to a string
ScalarStyle(s) == IF Resolve(s) # "str" THEN "quoted" ELSE "plain"

EncodeStr(s) == [style |-> ScalarStyle(s), value |-> s]

\* yaml.Unmarshal of a scalar into a string field: a plain null leaves the zero value
DecodeStr(sc) ==
    IF sc.style = "plain" /\ Resolve(sc.value) = "null" THEN EmptyStr ELSE sc.value

Marshal(c) ==
    [registry |-> [domain   |-> EncodeStr(c.registry.domain),
                   username |-> EncodeStr(c.registry.username),
                   password |-> EncodeStr(c.registry.password),
                   project  |-> EncodeStr(c.registry.project)],
     dockerRegistries |-> [i \in 1..Len(c.dockerRegistries) |-> EncodeStr(c.dockerRegistries[i])]]

Unmarshal(doc) ==
    MkConfig(DecodeStr(doc.registry.domain),
             DecodeStr(doc.registry.username),
             DecodeStr(doc.registry.password),
             DecodeStr(doc.registry.project),
             [i \in 1..Len(doc.dockerRegistries) |-> DecodeStr(doc.dockerRegistries[i])])

\* contents of the configuration file
YamlFile(doc) == [kind |-> "yaml", doc |-> doc]
BadFile(k) == [kind |-> k, doc |-> Marshal(ZeroConfig)]
FileErrorKinds == {"missing", "unreadable", "garbage"}

LoadConfigIgnoresParseError(f) ==
    IF f.kind \in {"missing", "unreadable"} THEN [err |-> TRUE, cfg |-> ZeroConfig]
    ELSE IF f.kind = "garbage" THEN [err |-> FALSE, cfg |-> ZeroConfig]
    ELSE [err |-> FALSE, cfg |-> Unmarshal(f.doc)]

\* LoadConfig: ReadFile error, Unmarshal error, or the parsed record
LoadConfig(f) ==
    IF f.kind \in {"missing", "unreadable"} THEN [err |-> TRUE, cfg |-> ZeroConfig]
    ELSE IF f.kind = "garbage" THEN [err |-> TRUE, cfg |-> ZeroConfig]
    ELSE [err |-> FALSE, cfg |-> Unmarshal(f.doc)]

SaveConfigNoMirrors(c) == YamlFile(Marshal([c EXCEPT !.dockerRegistries = <<>>]))

\* SaveConfig when WriteFile succeeds: the file is truncated and rewritten
SaveConfig(c) == YamlFile(Marshal(c))

(***************************************************************************)
(* Execute (lines 63-72).                                                  *)
(***************************************************************************)
PlatformArgs == << S("--platform"), <<"linux", Slash, "amd64">> >>

ExecArgsEveryOS(command, args) ==
    IF command = "docker" /\ Len(args) > 0 /\ args[1] = S("pull")
    THEN SubSeq(args, 1, 1) \o PlatformArgs \o SubSeq(args, 2, Len(args))
    ELSE args

\* the argument list handed to exec.Command
ExecArgs(command, args) ==
    IF command = "docker" /\ Len(args) > 0 /\ args[1] = S("pull") /\ goos = "darwin"
    THEN SubSeq(args, 1, 1) \o PlatformArgs \o SubSeq(args, 2, Len(args))
    ELSE args

Call(command, args, ok) == [command |-> command, args |-> ExecArgs(command, args), ok |-> ok]

(***************************************************************************)
(* Inputs of a run.                                                        *)
(***************************************************************************)
Prog == S("docker-mirror")
Images == { S("redis:7"), <<"bitnami", Slash, "postgresql">> }
Commands == { S("config"), S("pull"), S("pull-local"), S("help"), S("bogus") }
Hosts == { S("m1.io"), S("m2.io"), EmptyStr }
Domains == { S("reg.example"), S("hub.corp") }
User == S("alice")
Pass == S("s3cret")

ArgLists ==
    { <<Prog>> }
    \cup { <<Prog, c>> : c \in Commands }
    \cup { <<Prog, c, i>> : c \in Commands, i \in Images }
    \cup { <<Prog, c, i, S("extra")>> : c \in Commands, i \in Images }

RunConfigs == { MkConfig(d, User, Pass, EmptyStr, regs) : d \in Domains, regs \in SeqsUpTo(Hosts, MaxHosts) }

RunFiles == { BadFile(k) : k \in FileErrorKinds } \cup { SaveConfig(c) : c \in RunConfigs }

NoLoad == [done |-> FALSE, err |-> FALSE, cfg |-> ZeroConfig]

StoreIdle ==
    /\ stSaved = ZeroConfig
    /\ stReplaced = FALSE
    /\ stSaveOK = FALSE
    /\ stLoad = NoLoad
    /\ stPc = "none"

ExecIdle ==
    /\ exCommand = "docker"
    /\ exArgs = <<>>
    /\ exRun = <<>>
    /\ exDone = FALSE

Init ==
    /\ osArgs \in ArgLists
    /\ homeOK \in BOOLEAN
    /\ goos \in {"darwin", "linux"}
    /\ file \in RunFiles
    /\ mkdirCalled = FALSE
    /\ pc = "start"
    /\ config = ZeroConfig
    /\ image = EmptyStr
    /\ sourceImage = EmptyStr
    /\ part = <<>>
    /\ targetImage = EmptyStr
    /\ pullErr = FALSE
    /\ pulledRegistry = EmptyStr
    /\ idx = 1
    /\ calls = <<>>
    /\ out = <<>>
    /\ exit = -1
    /\ reads = 0
    /\ file0 = file
    /\ entered = <<>>
    /\ StoreIdle
    /\ ExecIdle

(***************************************************************************)
(* Steps shared by the handlers.                                           *)
(***************************************************************************)
\* fmt.Println / fmt.Printf / log output of the messages ms, in order
Say(ms) == out' = out \o ms

\* return from main
Return == pc' = "done" /\ exit' = 0

\* log.Fatalf after its message is printed: os.Exit(1)
Fatal == pc' = "fatal" /\ exit' = 1

\* Execute("docker", args...) returning err == nil iff ok
Execute(args, ok) == calls' = Append(calls, Call("docker", args, ok))

(***************************************************************************)
(* main, lines 118-131 and 252-257.                                        *)
(***************************************************************************)
\* lines 119-122
MainNoArgs ==
    /\ pc = "start"
    /\ Len(osArgs) < 2
    /\ Say(<<"help">>)
    /\ Return
    /\ UNCHANGED <<osArgs, homeOK, goos, file, mkdirCalled, config, image, sourceImage, part,
                   targetImage, pullErr, pulledRegistry, idx, calls, reads, storeVars, execVars, file0, entered>>

GetConfigPathCreatesFile ==
    /\ pc = "start"
    /\ ~(Len(osArgs) < 2)
    /\ IF ~homeOK
       THEN Say(<<"fatal-home">>) /\ Fatal /\ UNCHANGED <<mkdirCalled, file>>
       ELSE mkdirCalled' = TRUE /\ file' = YamlFile(Marshal(ZeroConfig)) /\ pc' = "switch" /\ UNCHANGED <<out, exit>>
    /\ UNCHANGED <<osArgs, homeOK, goos, config, image, sourceImage, part,
                   targetImage, pullErr, pulledRegistry, idx, calls, reads, storeVars, execVars, file0, entered>>

\* lines 124-125 with GetConfigPath, lines 29-37
GetConfigPath ==
    /\ pc = "start"
    /\ ~(Len(osArgs) < 2)
    /\ IF ~homeOK
       THEN Say(<<"fatal-home">>) /\ Fatal /\ UNCHANGED mkdirCalled
       ELSE mkdirCalled' = TRUE /\ pc' = "switch" /\ UNCHANGED <<out, exit>>
    /\ UNCHANGED <<osArgs, homeOK, goos, file, config, image, sourceImage, part,
                   targetImage, pullErr, pulledRegistry, idx, calls, reads, storeVars, execVars, file0, entered>>

command == osArgs[2]

\* lines 252-253
CmdHelp ==
    /\ pc = "switch"
    /\ command = S("help")
    /\ Say(<<"help">>)
    /\ Return
    /\ UNCHANGED <<osArgs, homeOK, goos, file, mkdirCalled, config, image, sourceImage, part,
                   targetImage, pullErr, pulledRegistry, idx, calls, reads, storeVars, execVars, file0, entered>>

\* lines 254-256
CmdUnknown ==
    /\ pc = "switch"
    /\ command \notin {S("config"), S("pull"), S("pull-local"), S("help")}
    /\ Say(<<"unknown", "help">>)
    /\ Return
    /\ UNCHANGED <<osArgs, homeOK, goos, file, mkdirCalled, config, image, sourceImage, part,
                   targetImage, pullErr, pulledRegistry, idx, calls, reads, storeVars, execVars, file0, entered>>

(***************************************************************************)
(* config: Configure, lines 83-98 and 128-132.                             *)
(***************************************************************************)
RawLines == { S("reg.example"), <<" ", "hub.corp", " ">> }

\* Prompt: one line of input, trimmed
Prompt(line) == TrimSpace(line)

\* lines 91-95
DefaultRegistries == << S("docker.m.daocloud.io"), S("quay.m.daocloud.io"), S("k8s.m.daocloud.io") >>

EmptyFile == YamlFile(Marshal(ZeroConfig))

\* what one Prompt reads when the lines rest are still unread and its
\* bufio.Reader takes n of them from os.Stdin: the first line, or "" at EOF
ReadLine(rest) == IF rest = <<>> THEN EmptyStr ELSE Head(rest)
Unread(rest, n) == SubSeq(rest, n + 1, Len(rest))
Takes(rest) == IF rest = <<>> THEN {0} ELSE 1..Len(rest)

\* Each Prompt wraps os.Stdin in a new bufio.Reader; the lines a reader has
\* buffered beyond its own are lost with it (a terminal hands over one line
\* per read, a pipe or a file whatever is there).
CmdConfig ==
    /\ pc = "switch"
    /\ command = S("config")
    /\ \E l1 \in RawLines, l2 \in RawLines, l3 \in RawLines, written \in BOOLEAN :
       \E n1 \in Takes(<<l1, l2, l3>>) :
       \E n2 \in Takes(Unread(<<l1, l2, l3>>, n1)) :
         LET rest1 == Unread(<<l1, l2, l3>>, n1)
             rest2 == Unread(rest1, n2)
             cfg == MkConfig(Prompt(ReadLine(<<l1, l2, l3>>)),
                             Prompt(ReadLine(rest1)),
                             Prompt(ReadLine(rest2)),
                             EmptyStr,
                             DefaultRegistries)
         IN /\ entered' = <<l1, l2, l3>>
            /\ IF written
               THEN /\ file' = SaveConfig(cfg)
                    /\ Say(<<"prompt-domain", "prompt-username", "prompt-password", "config-saved">>)
                    /\ Return
               ELSE /\ file' \in {file, EmptyFile, BadFile("garbage")}
                    /\ Say(<<"prompt-domain", "prompt-username", "prompt-password", "fatal-config">>)
                    /\ Fatal
    /\ UNCHANGED <<osArgs, homeOK, goos, mkdirCalled, config, image, sourceImage, part,
                   targetImage, pullErr, pulledRegistry, idx, calls, reads, storeVars, execVars, file0>>

(***************************************************************************)
(* pull, lines 133-207.                                                    *)
(***************************************************************************)
\* lines 134-137
CmdPullUsage ==
    /\ pc = "switch"
    /\ command = S("pull")
    /\ Len(osArgs) # 3
    /\ Say(<<"usage-pull">>)
    /\ Return
    /\ UNCHANGED <<osArgs, homeOK, goos, file, mkdirCalled, config, image, sourceImage, part,
                   targetImage, pullErr, pulledRegistry, idx, calls, reads, storeVars, execVars, file0, entered>>

\* lines 150-152: the value of part after the no-slash test
NormalizePart(p) == IF Len(p) = 1 THEN << S("library"), p[1] >> ELSE p

\* line 153
TargetImage(c, img) == Sprintf2(c.registry.domain, img)

BarePullRefPrefixed(src) == Sprintf2(EmptyStr, src)

MirrorPullRefFirstHost(registry, src) == Sprintf2(config.dockerRegistries[1], src)

\* lines 160 and 171: the reference given to docker pull
BarePullRef(src) == src
MirrorPullRef(registry, src) == Sprintf2(registry, src)

\* lines 139-153
PullBegin ==
    /\ pc = "switch"
    /\ command = S("pull")
    /\ Len(osArgs) = 3
    /\ image' = osArgs[3]
    /\ sourceImage' = osArgs[3]
    /\ reads' = reads + 1
    /\ LET r == LoadConfig(file)
       IN IF r.err
          THEN /\ Say(<<"fatal-load">>)
               /\ Fatal
               /\ part' = Split(osArgs[3])
               /\ UNCHANGED <<config, targetImage>>
          ELSE /\ config' = r.cfg
               /\ part' = NormalizePart(Split(osArgs[3]))
               /\ targetImage' = TargetImage(r.cfg, osArgs[3])
               /\ pc' = IF Len(r.cfg.dockerRegistries) = 0 THEN "pull_bare" ELSE "pull_loop"
               /\ UNCHANGED <<out, exit>>
    /\ UNCHANGED <<osArgs, homeOK, goos, file, mkdirCalled, pullErr, pulledRegistry, idx,
                   calls, storeVars, execVars, file0, entered>>

\* lines 157-166
PullBare ==
    /\ pc = "pull_bare"
    /\ \E ok \in BOOLEAN :
         /\ Execute(<<S("pull"), BarePullRef(sourceImage)>>, ok)
         /\ IF ok
            THEN /\ pullErr' = FALSE
                 /\ pulledRegistry' = EmptyStr
                 /\ Say(<<"pulling">>)
            ELSE /\ pullErr' = TRUE
                 /\ Say(<<"pulling", "pull-error">>)
                 /\ UNCHANGED pulledRegistry
    /\ pc' = "pull_check"
    /\ UNCHANGED <<osArgs, homeOK, goos, file, mkdirCalled, config, image, sourceImage, part,
                   targetImage, idx, exit, reads, storeVars, execVars, file0, entered>>

\* lines 168-179: one iteration of the range loop
PullLoop ==
    /\ pc = "pull_loop"
    /\ LET registry == config.dockerRegistries[idx]
       IN \E ok \in BOOLEAN :
            /\ Execute(<<S("pull"), MirrorPullRef(registry, sourceImage)>>, ok)
            /\ IF ok
               THEN /\ pullErr' = FALSE
                    /\ pulledRegistry' = registry
                    /\ Say(<<"pulling-from">>)
                    /\ pc' = "pull_check"
                    /\ UNCHANGED idx
               ELSE /\ pullErr' = TRUE
                    /\ Say(<<"pulling-from", "pull-error">>)
                    /\ idx' = idx + 1
                    /\ pc' = IF idx + 1 > Len(config.dockerRegistries) THEN "pull_check" ELSE "pull_loop"
                    /\ UNCHANGED pulledRegistry
    /\ UNCHANGED <<osArgs, homeOK, goos, file, mkdirCalled, config, image, sourceImage, part,
                   targetImage, exit, reads, storeVars, execVars, file0, entered>>

TagSourceFirstMirror(registry, src) ==
    IF registry # EmptyStr THEN Sprintf2(config.dockerRegistries[1], src) ELSE src

\* lines 187-189: the source argument of docker tag
TagSource(registry, src) == IF registry # EmptyStr THEN Sprintf2(registry, src) ELSE src

PullCheckIgnoresErr ==
    /\ pc = "pull_check"
    /\ sourceImage' = IF pulledRegistry # EmptyStr THEN Sprintf2(pulledRegistry, sourceImage) ELSE sourceImage
    /\ pc' = "tag"
    /\ UNCHANGED <<out, exit>>
    /\ UNCHANGED <<osArgs, homeOK, goos, file, mkdirCalled, config, image, part, targetImage,
                   pullErr, pulledRegistry, idx, calls, reads, storeVars, execVars, file0, entered>>

\* lines 182-189
PullCheck ==
    /\ pc = "pull_check"
    /\ IF pullErr
       THEN Say(<<"fatal-pull">>) /\ Fatal /\ UNCHANGED sourceImage
       ELSE /\ sourceImage' = TagSource(pulledRegistry, sourceImage)
            /\ pc' = "tag"
            /\ UNCHANGED <<out, exit>>
    /\ UNCHANGED <<osArgs, homeOK, goos, file, mkdirCalled, config, image, part, targetImage,
                   pullErr, pulledRegistry, idx, calls, reads, storeVars, execVars, file0, entered>>

PushArgsSource == << S("push"), sourceImage >>

\* lines 191, 197 and 203: the arguments of the three commands after the pull
TagArgs == << S("tag"), sourceImage, targetImage >>
LoginArgs == << S("login"), config.registry.domain, S("-u"), config.registry.username,
                S("-p"), config.registry.password >>
PushArgs == << S("push"), targetImage >>

TagRetriesOnce ==
    /\ pc = "tag"
    /\ \E ok \in BOOLEAN :
         /\ Execute(<<S("tag"), sourceImage, targetImage>>, ok)
         /\ IF ok
            THEN Say(<<"tagging">>) /\ pc' = "login" /\ UNCHANGED exit
            ELSE IF \E i \in 1..Len(calls) : calls[i].args[1] = S("tag")
                 THEN Say(<<"tagging", "fatal-tag">>) /\ Fatal
                 ELSE Say(<<"tagging">>) /\ UNCHANGED <<pc, exit>>
    /\ UNCHANGED <<osArgs, homeOK, goos, file, mkdirCalled, config, image, sourceImage, part,
                   targetImage, pullErr, pulledRegistry, idx, reads, storeVars, execVars, file0, entered>>

\* lines 190-193
Tag ==
    /\ pc = "tag"
    /\ \E ok \in BOOLEAN :
         /\ Execute(TagArgs, ok)
         /\ IF ok
            THEN Say(<<"tagging">>) /\ pc' = "login" /\ UNCHANGED exit
            ELSE Say(<<"tagging", "fatal-tag">>) /\ Fatal
    /\ UNCHANGED <<osArgs, homeOK, goos, file, mkdirCalled, config, image, sourceImage, part,
                   targetImage, pullErr, pulledRegistry, idx, reads, storeVars, execVars, file0, entered>>

LoginIgnoresError ==
    /\ pc = "login"
    /\ \E ok \in BOOLEAN :
         /\ Execute(<<S("login"), config.registry.domain, S("-u"), config.registry.username,
                      S("-p"), config.registry.password>>, ok)
         /\ Say(<<"logging-in">>) /\ pc' = "push" /\ UNCHANGED exit
    /\ UNCHANGED <<osArgs, homeOK, goos, file, mkdirCalled, config, image, sourceImage, part,
                   targetImage, pullErr, pulledRegistry, idx, reads, storeVars, execVars, file0, entered>>

\* lines 196-199
Login ==
    /\ pc = "login"
    /\ \E ok \in BOOLEAN :
         /\ Execute(LoginArgs, ok)
         /\ IF ok
            THEN Say(<<"logging-in">>) /\ pc' = "push" /\ UNCHANGED exit
            ELSE Say(<<"logging-in", "fatal-login">>) /\ Fatal
    /\ UNCHANGED <<osArgs, homeOK, goos, file, mkdirCalled, config, image, sourceImage, part,
                   targetImage, pullErr, pulledRegistry, idx, reads, storeVars, execVars, file0, entered>>

PushIgnoresError ==
    /\ pc = "push"
    /\ \E ok \in BOOLEAN :
         /\ Execute(<<S("push"), targetImage>>, ok)
         /\ Say(<<"pushing", "synced">>)
         /\ Return
    /\ UNCHANGED <<osArgs, homeOK, goos, file, mkdirCalled, config, image, sourceImage, part,
                   targetImage, pullErr, pulledRegistry, idx, reads, storeVars, execVars, file0, entered>>

\* lines 202-207
Push ==
    /\ pc = "push"
    /\ \E ok \in BOOLEAN :
         /\ Execute(PushArgs, ok)
         /\ IF ok
            THEN Say(<<"pushing", "synced">>) /\ Return
            ELSE Say(<<"pushing", "fatal-push">>) /\ Fatal
    /\ UNCHANGED <<osArgs, homeOK, goos, file, mkdirCalled, config, image, sourceImage, part,
                   targetImage, pullErr, pulledRegistry, idx, reads, storeVars, execVars, file0, entered>>

(***************************************************************************)
(* pull-local, lines 208-251.                                              *)
(***************************************************************************)
\* lines 209-212
CmdLocalUsage ==
    /\ pc = "switch"
    /\ command = S("pull-local")
    /\ Len(osArgs) # 3
    /\ Say(<<"usage-pull-local">>)
    /\ Return
    /\ UNCHANGED <<osArgs, homeOK, goos, file, mkdirCalled, config, image, sourceImage, part,
                   targetImage, pullErr, pulledRegistry, idx, calls, reads, storeVars, execVars, file0, entered>>

\* lines 214-221
LocalBegin ==
    /\ pc = "switch"
    /\ command = S("pull-local")
    /\ Len(osArgs) = 3
    /\ image' = osArgs[3]
    /\ sourceImage' = osArgs[3]
    /\ reads' = reads + 1
    /\ LET r == LoadConfig(file)
       IN IF r.err
          THEN Say(<<"fatal-load">>) /\ Fatal /\ UNCHANGED config
          ELSE /\ config' = r.cfg
               /\ pc' = IF Len(r.cfg.dockerRegistries) = 0 THEN "local_bare" ELSE "local_loop"
               /\ UNCHANGED <<out, exit>>
    /\ UNCHANGED <<osArgs, homeOK, goos, file, mkdirCalled, part, targetImage, pullErr,
                   pulledRegistry, idx, calls, storeVars, execVars, file0, entered>>

\* lines 224-232
LocalBare ==
    /\ pc = "local_bare"
    /\ \E ok \in BOOLEAN :
         /\ Execute(<<S("pull"), BarePullRef(sourceImage)>>, ok)
         /\ IF ok
            THEN pullErr' = FALSE /\ Say(<<"pulling">>)
            ELSE pullErr' = TRUE /\ Say(<<"pulling", "pull-error">>)
    /\ pc' = "local_check"
    /\ UNCHANGED <<osArgs, homeOK, goos, file, mkdirCalled, config, image, sourceImage, part,
                   targetImage, pulledRegistry, idx, exit, reads, storeVars, execVars, file0, entered>>

LocalLoopNoBreak ==
    /\ pc = "local_loop"
    /\ LET registry == config.dockerRegistries[idx]
       IN \E ok \in BOOLEAN :
            /\ Execute(<<S("pull"), MirrorPullRef(registry, sourceImage)>>, ok)
            /\ pullErr' = ~ok
            /\ Say(IF ok THEN <<"pulling-from">> ELSE <<"pulling-from", "pull-error">>)
            /\ idx' = idx + 1
            /\ pc' = IF idx + 1 > Len(config.dockerRegistries) THEN "local_check" ELSE "local_loop"
    /\ UNCHANGED <<osArgs, homeOK, goos, file, mkdirCalled, config, image, sourceImage, part,
                   targetImage, pulledRegistry, exit, reads, storeVars, execVars, file0, entered>>

\* lines 234-244: one iteration of the range loop
LocalLoop ==
    /\ pc = "local_loop"
    /\ LET registry == config.dockerRegistries[idx]
       IN \E ok \in BOOLEAN :
            /\ Execute(<<S("pull"), MirrorPullRef(registry, sourceImage)>>, ok)
            /\ IF ok
               THEN /\ pullErr' = FALSE
                    /\ Say(<<"pulling-from">>)
                    /\ pc' = "local_check"
                    /\ UNCHANGED idx
               ELSE /\ pullErr' = TRUE
                    /\ Say(<<"pulling-from", "pull-error">>)
                    /\ idx' = idx + 1
                    /\ pc' = IF idx + 1 > Len(config.dockerRegistries) THEN "local_check" ELSE "local_loop"
    /\ UNCHANGED <<osArgs, homeOK, goos, file, mkdirCalled, config, image, sourceImage, part,
                   targetImage, pulledRegistry, exit, reads, storeVars, execVars, file0, entered>>

LocalCheckFallsThrough ==
    /\ pc = "local_check"
    /\ IF pullErr
       THEN Say(<<"fatal-pull">>) /\ Fatal
       ELSE Say(<<"pulled-local">>) /\ pc' = "tag" /\ UNCHANGED exit
    /\ UNCHANGED <<osArgs, homeOK, goos, file, mkdirCalled, config, image, sourceImage, part,
                   targetImage, pullErr, pulledRegistry, idx, calls, reads, storeVars, execVars, file0, entered>>

\* lines 247-251
LocalCheck ==
    /\ pc = "local_check"
    /\ IF pullErr
       THEN Say(<<"fatal-pull">>) /\ Fatal
       ELSE Say(<<"pulled-local">>) /\ Return
    /\ UNCHANGED <<osArgs, homeOK, goos, file, mkdirCalled, config, image, sourceImage, part,
                   targetImage, pullErr, pulledRegistry, idx, calls, reads, storeVars, execVars, file0, entered>>

Next ==
    \/ MainNoArgs
    \/ GetConfigPath
    \/ CmdHelp
    \/ CmdUnknown
    \/ CmdConfig
    \/ CmdPullUsage
    \/ PullBegin
    \/ PullBare
    \/ PullLoop
    \/ PullCheck
    \/ Tag
    \/ Login
    \/ Push
    \/ CmdLocalUsage
    \/ LocalBegin
    \/ LocalBare
    \/ LocalLoop
    \/ LocalCheck

Spec == Init /\ [][Next]_vars

\* main is sequential and every external command returns: a step that can be
\* taken is taken.
SpecLive == Init /\ [][Next]_vars /\ WF_vars(Next)

(***************************************************************************)
(* The configuration store on its own: SaveConfig and LoadConfig applied   *)
(* to one path, in any order.                                              *)
(***************************************************************************)
StoreHosts == { S("m1.io"), S("null"), EmptyStr }

StoreConfigs ==
    { MkConfig(d, User, p, EmptyStr, regs) :
        d \in { S("reg.example"), S("null") },
        p \in { Pass, S("~") },
        regs \in SeqsUpTo(StoreHosts, MaxStoreHosts) }

InitStore ==
    /\ osArgs = <<Prog>>
    /\ homeOK = TRUE
    /\ goos = "linux"
    /\ file \in { BadFile("missing"), BadFile("garbage"), EmptyFile }
    /\ mkdirCalled = TRUE
    /\ pc = "store"
    /\ config = ZeroConfig
    /\ image = EmptyStr
    /\ sourceImage = EmptyStr
    /\ part = <<>>
    /\ targetImage = EmptyStr
    /\ pullErr = FALSE
    /\ pulledRegistry = EmptyStr
    /\ idx = 1
    /\ calls = <<>>
    /\ out = <<>>
    /\ exit = -1
    /\ reads = 0
    /\ file0 = file
    /\ entered = <<>>
    /\ StoreIdle
    /\ ExecIdle

\* SaveConfig(path, c), lines 54-60; WriteFile may fail before or after truncating
StoreSave ==
    /\ pc = "store"
    /\ \E c \in StoreConfigs, written \in BOOLEAN :
         IF written
         THEN /\ file' = SaveConfig(c)
              /\ stSaved' = c
              /\ stReplaced' = (stSaved # ZeroConfig /\ stSaved # c)
              /\ stSaveOK' = TRUE
         ELSE /\ file' \in {file, EmptyFile, BadFile("garbage")}
              /\ stSaveOK' = FALSE
              /\ UNCHANGED <<stSaved, stReplaced>>
    /\ stLoad' = NoLoad
    /\ stPc' = "saved"
    /\ UNCHANGED <<runVars, execVars>>

\* LoadConfig(path), lines 40-51
StoreLoad ==
    /\ pc = "store"
    /\ stLoad' = [done |-> TRUE, err |-> LoadConfig(file).err, cfg |-> LoadConfig(file).cfg]
    /\ stPc' = "loaded"
    /\ UNCHANGED <<file, runVars, execVars, stSaved, stReplaced, stSaveOK>>

NextStore ==
    \/ StoreSave
    \/ StoreLoad

SpecStore == InitStore /\ [][NextStore]_vars

(***************************************************************************)
(* Execute on its own, applied once to any command and argument list.      *)
(***************************************************************************)
ExecCommands == { "docker", "podman" }
ArgWords == { S("pull"), S("tag"), S("redis:7"), <<"m1.io", Slash, "redis:7">> }

InitExec ==
    /\ osArgs = <<Prog>>
    /\ homeOK = TRUE
    /\ goos \in {"darwin", "linux", "windows"}
    /\ file = BadFile("missing")
    /\ mkdirCalled = TRUE
    /\ pc = "exec"
    /\ config = ZeroConfig
    /\ image = EmptyStr
    /\ sourceImage = EmptyStr
    /\ part = <<>>
    /\ targetImage = EmptyStr
    /\ pullErr = FALSE
    /\ pulledRegistry = EmptyStr
    /\ idx = 1
    /\ calls = <<>>
    /\ out = <<>>
    /\ exit = -1
    /\ reads = 0
    /\ file0 = file
    /\ entered = <<>>
    /\ StoreIdle
    /\ exCommand \in ExecCommands
    /\ exArgs \in SeqsUpTo(ArgWords, MaxArgs)
    /\ exRun = <<>>
    /\ exDone = FALSE

\* Execute(exCommand, exArgs...), lines 63-72, whatever the command returns
ExecuteOnce ==
    /\ pc = "exec"
    /\ ~exDone
    /\ \E ok \in BOOLEAN :
         /\ exRun' = Call(exCommand, exArgs, ok).args
         /\ calls' = Append(calls, Call(exCommand, exArgs, ok))
    /\ Say(<<"exec">>)
    /\ exDone' = TRUE
    /\ UNCHANGED <<osArgs, homeOK, goos, file, mkdirCalled, pc, config, image, sourceImage, part,
                   targetImage, pullErr, pulledRegistry, idx, exit, reads, file0, entered,
                   storeVars, exCommand, exArgs>>

NextExec ==
    \/ ExecuteOnce

SpecExec == InitExec /\ [][NextExec]_vars

(***************************************************************************)
(* Vocabulary of the properties.                                           *)
(***************************************************************************)
IsCmd(c, sub) == c.args[1] = S(sub)
IsPull(c) == IsCmd(c, "pull")

\* the image reference of a pull: its last argument
PullRefOf(c) == c.args[Len(c.args)]

PullIdx == { i \in 1..Len(calls) : IsPull(calls[i]) }
PullCount == Cardinality(PullIdx)
AfterPullIdx == { i \in 1..Len(calls) : ~IsPull(calls[i]) }

InMode(m) == Len(osArgs) = 3 /\ osArgs[2] = S(m)
InPull == InMode("pull")
InLocal == InMode("pull-local")

Terminated == pc \in {"done", "fatal"}

\* the record stored in the configuration file, and whether the run has loaded it
Stored == LoadConfig(file).cfg
Loaded == reads > 0 /\ file.kind = "yaml"
Mirrors == Stored.dockerRegistries
N == Len(Mirrors)

\* C1: in pull and pull-local, for an image reference without a slash and a
\* non-empty mirror list, every pull attempt has the argument
\* <host>/library/<image>.
C1_LibraryInserted ==
    ((InPull \/ InLocal) /\ Loaded /\ N > 0 /\ ~HasSlash(osArgs[3]))
        => \A i \in PullIdx :
             /\ i <= N
             /\ PullRefOf(calls[i]) = Sprintf2(Mirrors[i], Sprintf2(S("library"), osArgs[3]))

\* C2: in pull mode, when the attempts on the first M of N hosts fail and the
\* attempt on host M+1 succeeds, exactly M+1 pull attempts occur in the run and
\* the source argument of the tag command starts with the name of host M+1.
C2_FallbackStopsAtFirstSuccess ==
    (InPull /\ Loaded /\ N > 0)
        => \A m \in 0..(N - 1) :
             ( /\ Len(calls) >= m + 1
               /\ \A i \in 1..m : IsPull(calls[i]) /\ ~calls[i].ok
               /\ IsPull(calls[m + 1]) /\ calls[m + 1].ok )
             => /\ PullCount = m + 1
                /\ pc # "pull_loop"
                /\ \A j \in 1..Len(calls) :
                     IsCmd(calls[j], "tag") => IsPrefix(Mirrors[m + 1], calls[j].args[2])
                /\ pc = "done" => \E j \in 1..Len(calls) : IsCmd(calls[j], "tag")

C2_Witness ==
    /\ InPull /\ Loaded /\ N = 3
    /\ Mirrors[1] # Mirrors[2] /\ Mirrors[2] # EmptyStr
    /\ Len(calls) >= 3
    /\ IsPull(calls[1]) /\ ~calls[1].ok
    /\ IsPull(calls[2]) /\ calls[2].ok
    /\ IsCmd(calls[3], "tag")
    /\ pc = "done"

\* C3: in pull mode, if every pull attempt fails (all N hosts, or the single
\* bare pull of an empty list), the run ends fatally with non-zero status and
\* no tag, login or push is invoked.
AllPullsFailed ==
    /\ PullCount = (IF N = 0 THEN 1 ELSE N)
    /\ \A i \in PullIdx : ~calls[i].ok

C3_AllFailFatal ==
    (InPull /\ Loaded /\ AllPullsFailed)
        => /\ AfterPullIdx = {}
           /\ pc \in {"pull_check", "fatal"}
           /\ pc = "pull_check" => pullErr
           /\ pc = "fatal" => exit = 1
           /\ exit # 0
           /\ "synced" \notin { out[i] : i \in 1..Len(out) }

C3_Witness ==
    /\ InPull /\ Loaded /\ N = 2 /\ AllPullsFailed
    /\ pc = "fatal" /\ exit = 1

\* C4: with an empty mirror list, a pull or pull-local run makes exactly one
\* pull attempt, whose argument is the image reference without a host prefix.
C4_EmptyListOneBarePull ==
    ((InPull \/ InLocal) /\ Loaded /\ N = 0)
        => /\ PullCount <= 1
           /\ \A i \in PullIdx : i = 1 /\ PullRefOf(calls[i]) = osArgs[3]
           /\ Terminated => PullCount = 1

C4_Witness ==
    /\ InLocal /\ Loaded /\ N = 0
    /\ pc = "done" /\ PullCount = 1 /\ PullRefOf(calls[1]) = osArgs[3]

\* C5: a pull-local run invokes no external command other than pulls: never
\* tag, login or push, whatever the pulls return.
C5_LocalOnlyPulls ==
    (Len(osArgs) >= 2 /\ osArgs[2] = S("pull-local"))
        => \A i \in 1..Len(calls) : calls[i].command = "docker" /\ IsPull(calls[i])

C5_Witness ==
    /\ InLocal /\ pc = "done" /\ N = 2 /\ Len(calls) = 2
    /\ ~calls[1].ok /\ calls[2].ok

Printed(m) == \E i \in 1..Len(out) : out[i] = m

\* C6: in pull mode a failed pull is followed by an attempt on the next mirror
\* host, if there is one, while a failed tag, login or push is the last command
\* of the run: the process exits with non-zero status without printing the
\* success message, so no login follows a failed tag and no push a failed login.
C6_OnlyPullFailuresRecover ==
    (InPull /\ Loaded)
        => \A i \in 1..Len(calls) :
             /\ (~IsPull(calls[i]) /\ ~calls[i].ok)
                    => /\ i = Len(calls)
                       /\ pc = "fatal"
                       /\ exit = 1
                       /\ ~Printed("synced")
             /\ (IsPull(calls[i]) /\ ~calls[i].ok /\ i < N)
                    => IF i = Len(calls)
                       THEN pc = "pull_loop" /\ idx = i + 1 /\ exit = -1
                       ELSE /\ IsPull(calls[i + 1])
                            /\ PullRefOf(calls[i + 1]) = Sprintf2(Mirrors[i + 1], osArgs[3])

C6_Witness ==
    /\ InPull /\ Loaded /\ N = 2
    /\ Len(calls) = 4
    /\ IsPull(calls[1]) /\ ~calls[1].ok
    /\ IsPull(calls[2]) /\ calls[2].ok
    /\ IsCmd(calls[3], "tag") /\ calls[3].ok
    /\ IsCmd(calls[4], "login") /\ ~calls[4].ok
    /\ pc = "fatal"

\* C7: after a successful pull in pull mode, tag, login and push are invoked in
\* that order, each at most once; the tag target is <configured domain>/<ref>,
\* <ref> being the reference that follows the host prefix in the pull target;
\* login names the configured domain, username and password; push is given
\* exactly the tag target.
C7_TagLoginPushInOrder ==
    (InPull /\ Loaded)
        => LET k == PullCount
               rest == SubSeq(calls, k + 1, Len(calls))
               ref == osArgs[3]
           IN /\ \A i \in 1..k : IsPull(calls[i])
              /\ Len(rest) <= 3
              /\ rest # <<>> =>
                    /\ calls[k].ok
                    /\ PullRefOf(calls[k]) = (IF N = 0 THEN ref ELSE Sprintf2(Mirrors[k], ref))
                    /\ Len(rest[1].args) = 3
                    /\ IsCmd(rest[1], "tag")
                    /\ rest[1].args[3] = Sprintf2(Stored.registry.domain, ref)
              /\ Len(rest) >= 2 =>
                    /\ rest[1].ok
                    /\ rest[2].args = << S("login"), Stored.registry.domain,
                                         S("-u"), Stored.registry.username,
                                         S("-p"), Stored.registry.password >>
              /\ Len(rest) >= 3 =>
                    /\ rest[2].ok
                    /\ rest[3].args = << S("push"), rest[1].args[3] >>
              /\ pc = "done" => Len(rest) = 3 /\ rest[3].ok

C7_Witness ==
    /\ InPull /\ Loaded /\ N = 2 /\ pc = "done"
    /\ Len(calls) = 5
    /\ ~calls[1].ok
    /\ IsCmd(calls[3], "tag") /\ IsCmd(calls[4], "login") /\ IsCmd(calls[5], "push")
    /\ Printed("synced")

\* C8: every usage-error invocation (pull or pull-local with an argument count
\* other than one image, or an unrecognized command) ends with zero exit status
\* in every environment: no fatal exit, no load of the configuration file, no
\* external command.
UsageError ==
    /\ Len(osArgs) >= 2
    /\ \/ osArgs[2] \in {S("pull"), S("pull-local")} /\ Len(osArgs) # 3
       \/ osArgs[2] \notin {S("config"), S("pull"), S("pull-local"), S("help")}

C8_UsageErrorsExitZero ==
    UsageError
        => /\ pc # "fatal"
           /\ exit # 1
           /\ reads = 0
           /\ calls = <<>>
           /\ pc = "done" => exit = 0 /\ (Printed("help") \/ Printed("usage-pull") \/ Printed("usage-pull-local"))

\* C9: if loading the configuration fails (file missing, unreadable or
\* unparsable) during pull or pull-local, the process aborts with a fatal
\* non-zero exit and no external command is invoked.
C9_LoadFailureFatal ==
    ((InPull \/ InLocal) /\ file.kind \in FileErrorKinds)
        => /\ calls = <<>>
           /\ pc \in {"start", "switch", "fatal"}
           /\ exit # 0
           /\ reads > 0 => pc = "fatal" /\ exit = 1 /\ Printed("fatal-load")

C9_Witness ==
    /\ InPull /\ file.kind = "garbage" /\ reads = 1
    /\ pc = "fatal" /\ exit = 1 /\ calls = <<>>

C11_AttemptsFollowListOrder ==
    ((InPull \/ InLocal) /\ Loaded /\ N > 0)
        => /\ PullCount <= N
           /\ PullIdx = 1..PullCount
           /\ \A k \in PullIdx :
                /\ PullRefOf(calls[k]) = Sprintf2(Mirrors[k], osArgs[3])
                /\ k < PullCount => ~calls[k].ok
           /\ (PullCount > 0 /\ calls[PullCount].ok) => pc \notin {"pull_loop", "local_loop"}

C11_Witness ==
    /\ InLocal /\ Loaded /\ N = 3 /\ pc = "done"
    /\ Mirrors[1] # Mirrors[2]
    /\ PullCount = 2 /\ ~calls[1].ok /\ calls[2].ok
    /\ PullRefOf(calls[2]) = Sprintf2(Mirrors[2], osArgs[3])

\* C12 as stated: in every pull or pull-local run the configuration file is
\* read exactly once and never written, so at exit it is as it was at start.
C12_ReadExactlyOnce ==
    ((InPull \/ InLocal) /\ Terminated) => (reads = 1 /\ file = file0)

\* C12, amended: in every pull or pull-local run the configuration file is
\* never written and is read at most once: exactly once by the end of a run
\* whose home directory could be determined, never in a run where it could not
\* (that run is fatal before the load).
C12_ReadAtMostOnceNeverWritten ==
    (InPull \/ InLocal)
        => /\ file = file0
           /\ reads <= 1
           /\ Terminated => reads = (IF homeOK THEN 1 ELSE 0)
           /\ pc \in {"start", "switch"} => reads = 0

C12_Witness ==
    /\ InPull /\ pc = "fatal" /\ reads = 1 /\ file = file0
    /\ Len(calls) = 3 /\ IsCmd(calls[3], "login") /\ ~calls[3].ok

\* C13: after a successful config command the stored configuration has the
\* domain, username and password entered, in that order (as Prompt trims
\* them), and the three default mirror hosts in their order, whatever the
\* file held before.
C13_ConfigStoresWhatWasEntered ==
    (Len(osArgs) >= 2 /\ osArgs[2] = S("config") /\ Printed("config-saved"))
        => /\ ~LoadConfig(file).err
           /\ Stored.registry.domain = TrimSpace(entered[1])
           /\ Stored.registry.username = TrimSpace(entered[2])
           /\ Stored.registry.password = TrimSpace(entered[3])
           /\ Stored.dockerRegistries = DefaultRegistries

\* C14: Execute rewrites the arguments only when the command is docker, the
\* first argument is pull and the OS is darwin: it then runs pull, --platform,
\* linux/amd64 followed by the remaining arguments in their order; in every
\* other case it runs the argument list it was given.
C14_PlatformRewriteOnlyDarwinPull ==
    exDone
        => IF exCommand = "docker" /\ exArgs # <<>> /\ Head(exArgs) = S("pull") /\ goos = "darwin"
           THEN /\ Len(exRun) = Len(exArgs) + 2
                /\ exRun[1] = S("pull")
                /\ exRun[2] = S("--platform")
                /\ exRun[3] = <<"linux", Slash, "amd64">>
                /\ \A i \in 2..Len(exArgs) : exRun[i + 2] = exArgs[i]
           ELSE exRun = exArgs

C14_Witness ==
    /\ exDone /\ goos = "darwin" /\ exCommand = "docker"
    /\ exArgs = << S("pull"), <<"m1.io", Slash, "redis:7">>, S("tag") >>
    /\ Len(exRun) = 5 /\ exRun[4] = <<"m1.io", Slash, "redis:7">> /\ exRun[5] = S("tag")

\* C15: in pull mode, for every mirror list (empty-string and duplicate hosts
\* included), the source argument of the tag command is exactly the image
\* reference given to the pull attempt that succeeded.
C15_TagSourceIsPulledRef ==
    (InPull /\ Loaded)
        => \A j \in 1..Len(calls) :
             IsCmd(calls[j], "tag")
                => /\ PullCount > 0
                   /\ calls[PullCount].ok
                   /\ calls[j].args[2] = PullRefOf(calls[PullCount])

\* The pull phase as a function of the stored mirror list, the image and the
\* outcomes oks of the pulls made so far, with no reference to the mode.
PhasePulls(mirrors, img, oks) ==
    [ i \in 1..Len(oks) |->
        [ command |-> "docker",
          args |-> (IF goos = "darwin" THEN <<S("pull")>> \o PlatformArgs ELSE <<S("pull")>>)
                   \o << IF mirrors = <<>> THEN img ELSE Sprintf2(mirrors[i], img) >>,
          ok |-> oks[i] ] ]

PhaseResult(mirrors, oks) ==
    IF oks = <<>> THEN "pulling"
    ELSE IF oks[Len(oks)] THEN "succeeded"
    ELSE IF Len(oks) < (IF mirrors = <<>> THEN 1 ELSE Len(mirrors)) THEN "pulling"
    ELSE "failed"

\* where the run stands with respect to its pull phase
PhaseNow ==
    IF pc \in {"pull_bare", "pull_loop", "local_bare", "local_loop"} THEN "pulling"
    ELSE IF pc \in {"pull_check", "local_check"} THEN (IF pullErr THEN "failed" ELSE "succeeded")
    ELSE IF Printed("fatal-pull") THEN "failed"
    ELSE "succeeded"

PullOks == [ i \in 1..PullCount |-> calls[i].ok ]

\* C16: for the same configuration, image and outcomes of the pull commands,
\* pull-local and pull issue the same sequence of pull attempts and agree on
\* whether the pull phase succeeds or is fatal: in either mode the attempts
\* and the result are the same function of configuration, image and outcomes.
C16_SamePullPhaseInBothModes ==
    ((InPull \/ InLocal) /\ Loaded)
        => /\ PullIdx = 1..PullCount
           /\ SubSeq(calls, 1, PullCount) = PhasePulls(Mirrors, osArgs[3], PullOks)
           /\ \A i \in 1..(PullCount - 1) : ~PullOks[i]
           /\ PhaseNow = PhaseResult(Mirrors, PullOks)
           /\ (PhaseNow = "failed" /\ Terminated) => pc = "fatal" /\ exit = 1

C16_Witness ==
    /\ InLocal /\ Loaded /\ N = 3 /\ pc = "done"
    /\ PullOks = <<FALSE, TRUE>>
    /\ PhaseNow = "succeeded"

SucceededCall(sub) == \E i \in 1..Len(calls) : IsCmd(calls[i], sub) /\ calls[i].ok

\* C17: a pull run reaches its success state (success message, zero exit) only
\* if a pull attempt succeeded and then tag, login and push were each invoked
\* and succeeded; a pull-local run reaches its success state only if a pull
\* attempt succeeded.
C17_SuccessOnlyAfterAllSucceeded ==
    /\ (InPull /\ (Printed("synced") \/ pc = "done"))
          => /\ Printed("synced") /\ pc = "done" /\ exit = 0
             /\ \E i \in 1..Len(calls) :
                  /\ IsPull(calls[i]) /\ calls[i].ok
                  /\ Len(calls) = i + 3
                  /\ IsCmd(calls[i + 1], "tag") /\ calls[i + 1].ok
                  /\ IsCmd(calls[i + 2], "login") /\ calls[i + 2].ok
                  /\ IsCmd(calls[i + 3], "push") /\ calls[i + 3].ok
    /\ (InLocal /\ (Printed("pulled-local") \/ pc = "done"))
          => /\ Printed("pulled-local") /\ pc = "done" /\ exit = 0
             /\ SucceededCall("pull")
    /\ (Printed("synced") => InPull) /\ (Printed("pulled-local") => InLocal)

C17_Witness ==
    /\ InPull /\ pc = "done" /\ Printed("synced") /\ N = 0
    /\ Len(calls) = 4 /\ \A i \in 1..4 : calls[i].ok

CountCmd(sub) == Cardinality({ i \in 1..Len(calls) : IsCmd(calls[i], sub) })

WithinCallBudget ==
    (InPull \/ InLocal)
        => /\ PullCount <= (IF Loaded THEN (IF N = 0 THEN 1 ELSE N) ELSE 0)
           /\ CountCmd("tag") <= 1
           /\ CountCmd("login") <= 1
           /\ CountCmd("push") <= 1
           /\ Len(calls) = PullCount + CountCmd("tag") + CountCmd("login") + CountCmd("push")

\* C18: when every external command returns, every pull or pull-local run
\* terminates, in the success state or a fatal state, after at most max(1, N)
\* pull attempts and at most one tag, one login and one push.
C18_TerminatesWithinBudget ==
    /\ []WithinCallBudget
    /\ (InPull \/ InLocal) ~> (Terminated /\ exit \in {0, 1})

C18_Witness ==
    /\ InPull /\ Loaded /\ N = 3 /\ pc = "done" /\ exit = 0
    /\ PullCount = 3 /\ Len(calls) = 6
====
